---- MODULE Spec2Model ----
(***************************************************************************)
(* Model of zero_monitor's monitoring engine (src/monitor.py):             *)
(* RemoteMonitor.get_metrics, stepped statement by statement, the poll     *)
(* loop of main, and load_hosts_from_json.                                 *)
(*                                                                         *)
(* Text is a sequence of one-character strings.  The characters that occur *)
(* are the digits, ".", "-", "%", "/", ":", the letters of the memory row  *)
(* label, the letter "x" (any character that is none of the others), the   *)
(* space and the newline.  Python's float() is modelled on that alphabet:  *)
(* an optional sign, digits and at most one "."; the literals inf and nan, *)
(* exponents and digit-group underscores use characters outside it.        *)
(*                                                                         *)
(* The str methods, float() and the regular expression are functions of   *)
(* the text, not operators, so that TLC evaluates their argument once.     *)
(*                                                                         *)
(* A metric value is <<>> for None and <<m, e>> for the float m / 10^e,    *)
(* kept normalised (e = 0 or m not divisible by 10) so that equal floats   *)
(* are equal tuples.  Binary rounding is not modelled.                     *)
(***************************************************************************)
EXTENDS Integers, Sequences, FiniteSets, TLC

----------------------------------------------------------------------------
(* Bounds of the model *)

NumHosts == 2
MaxCycles == 2
MaxMemFields == 6
MaxLoadTokens == 4
MaxEntries == 2

----------------------------------------------------------------------------
(* Characters and str methods *)

Whitespace == {" ", "\n"}

(* the characters of the texts; "x", "d" and "S" are letters without a role *)
Chars ==
  {"0", "1", "2", "3", "4", "5", "6", "7", "8", "9", " ", "\n",
   ".", "-", "+", "%", "/", ":", "M", "e", "m", "x", "d", "S"}

Text == Seq(Chars)

Digits == {"0", "1", "2", "3", "4", "5", "6", "7", "8", "9"}

IsSpace(c) == c \in Whitespace

IsDigit(c) == c \in Digits

DigitVal(c) ==
  CASE c = "0" -> 0 [] c = "1" -> 1 [] c = "2" -> 2 [] c = "3" -> 3
    [] c = "4" -> 4 [] c = "5" -> 5 [] c = "6" -> 6 [] c = "7" -> 7
    [] c = "8" -> 8 [] c = "9" -> 9

NotSpace(c) == ~IsSpace(c)

(* the last index of the run of characters satisfying Cls that starts at i *)
RunEnd(s, i, Cls(_)) ==
  CHOOSE q \in i..Len(s) :
    /\ \A j \in i..q : Cls(s[j])
    /\ q = Len(s) \/ ~Cls(s[q + 1])

(* the smallest element of a set of numbers *)
Min[S \in SUBSET Int] == CHOOSE i \in S : \A j \in S : i <= j

(* the largest element of a set of numbers *)
Max[S \in SUBSET Int] == CHOOSE i \in S : \A j \in S : j <= i

(* the k-th smallest element of a set of numbers *)
Nth[S \in SUBSET Int, k \in Int] == CHOOSE i \in S : Cardinality({j \in S : j < i}) = k - 1

(* the run of characters satisfying Cls that starts at i *)
Run(s, i, Cls(_)) == SubSeq(s, i, RunEnd(s, i, Cls))

(* the runs of non-whitespace characters that start at the places in starts *)
Tokens[s \in Text, starts \in SUBSET Int] ==
  [k \in 1..Cardinality(starts) |-> Run(s, Nth[starts, k], NotSpace)]

(* str.split(): the maximal runs of non-whitespace characters, in order *)
Split[s \in Text] ==
  Tokens[s, {i \in 1..Len(s) : NotSpace(s[i]) /\ (i = 1 \/ IsSpace(s[i - 1]))}]

(* the pieces of s that the line ends at the places in ends delimit *)
Pieces[s \in Text, ends \in SUBSET Int] ==
  [k \in 1..(Cardinality(ends) + (IF s # <<>> /\ s[Len(s)] # "\n" THEN 1 ELSE 0)) |->
     SubSeq(s,
            IF k = 1 THEN 1 ELSE Nth[ends, k - 1] + 1,
            IF k <= Cardinality(ends) THEN Nth[ends, k] - 1 ELSE Len(s))]

(* str.splitlines(): the text between line ends, without them; a text that
   ends in a line end has no empty last line *)
SplitLines[s \in Text] == Pieces[s, {i \in 1..Len(s) : s[i] = "\n"}]

(* str.startswith(prefix) *)
StartsWith(s, prefix) ==
  /\ Len(s) >= Len(prefix)
  /\ SubSeq(s, 1, Len(prefix)) = prefix

(* str.strip() *)
Strip[s \in Text] ==
  LET keep == {i \in 1..Len(s) : ~IsSpace(s[i])}
  IN  IF keep = {} THEN <<>> ELSE SubSeq(s, Min[keep], Max[keep])

----------------------------------------------------------------------------
(* float() *)

None == <<>>

(* m / 10^e with the trailing zeros of m that e allows removed *)
Normalise[m \in Int, e \in Nat] ==
  LET t == Max[{i \in 0..e : m % (10 ^ i) = 0}]
  IN  <<m \div (10 ^ t), e - t>>

(* the number a sequence of digits writes *)
DigitsVal[s \in Text] ==
  LET val[i \in 0..Len(s)] == IF i = 0 THEN 0 ELSE 10 * val[i - 1] + DigitVal(s[i])
  IN  val[Len(s)]

(* s without its sign *)
Unsigned[s \in Text] == IF s # <<>> /\ Head(s) \in {"-", "+"} THEN Tail(s) ELSE s

(* an unsigned float literal: digits with at most one "." among them *)
IsDecimal[u \in Text] ==
  /\ \A i \in 1..Len(u) : IsDigit(u[i]) \/ u[i] = "."
  /\ Cardinality({i \in 1..Len(u) : u[i] = "."}) <= 1
  /\ \E i \in 1..Len(u) : IsDigit(u[i])

(* the value of an unsigned float literal: its digits, scaled by the number
   of digits after the "." *)
DecimalVal[u \in Text] ==
  Normalise[DigitsVal[SelectSeq(u, IsDigit)],
            Cardinality({i \in 1..Len(u) : \E j \in 1..(i - 1) : u[j] = "."})]

(* does float(s) accept s: [sign] digits [. [digits]] or [sign] . digits *)
FloatOK[s \in Text] == IsDecimal[Unsigned[s]]

Negate(v) == <<0 - v[1], v[2]>>

(* the value float(s) of an accepted s *)
FloatVal[s \in Text] ==
  IF Head(s) = "-" THEN Negate(DecimalVal[Unsigned[s]]) ELSE DecimalVal[Unsigned[s]]

(* x / 1000.0 *)
DivThousand(v) == Normalise[v[1], v[2] + 3]

----------------------------------------------------------------------------
(* The parsing statements of get_metrics *)

MetricKeys ==
  {"disk_root_used_pct", "mem_total_mb", "mem_free_mb",
   "cpu_load_1m", "cpu_load_5m", "cpu_load_15m", "temperature_c"}

MemLabel == <<"M", "e", "m", ":">>

IndexErrorMsg == "list index out of range"

ValueErrorMsg == "could not convert string to float"

(* {} *)
NoDict == [k \in {} |-> None]

(* metrics[k] = v *)
SetItem(d, k, v) == (k :> v) @@ d

(* is position p of s where the digits of a match of \s+(\d+)%\s+/ start: a
   whitespace character before p, then the whole digit run from p, "%", a
   whitespace run and "/" *)
DiskMatchAt(s, p) ==
  /\ IsSpace(s[p - 1])
  /\ IsDigit(s[p])
  /\ \E q \in {RunEnd(s, p, IsDigit)} :
       /\ q + 2 <= Len(s)
       /\ s[q + 1] = "%"
       /\ IsSpace(s[q + 2])
       /\ \E r \in {RunEnd(s, q + 2, IsSpace)} : r + 1 <= Len(s) /\ s[r + 1] = "/"

(* group 1 of the leftmost of the matches whose digits start in starts *)
Group1[s \in Text, starts \in SUBSET Int] ==
  IF starts = {} THEN <<>> ELSE Run(s, Min[starts], IsDigit)

(* re.search(r"\s+(\d+)%\s+/", s): group 1 of the leftmost match, <<>> when
   nothing matches *)
ReSearchDisk[s \in Text] == Group1[s, {p \in 2..Len(s) : DiskMatchAt(s, p)}]

(* lines 52-56, given group 1 of the match *)
DiskFromMatch[group1 \in Text] ==
  IF group1 # <<>> THEN FloatVal[group1] ELSE None

(* a search for (\d+)%\s+/ that does not ask for whitespace before the digits *)
ParseDiskNoLeadingSpace(m, text) ==
  LET ends == {q \in 1..Len(text) :
                 /\ IsDigit(text[q])
                 /\ q + 2 <= Len(text)
                 /\ text[q + 1] = "%"
                 /\ IsSpace(text[q + 2])
                 /\ \E r \in {RunEnd(text, q + 2, IsSpace)} :
                      r + 1 <= Len(text) /\ text[r + 1] = "/"}
      first == Min[{p \in 1..Min[ends] : \A j \in p..Min[ends] : IsDigit(text[j])}]
  IN  SetItem(m, "disk_root_used_pct",
              IF ends = {} THEN None ELSE FloatVal[SubSeq(text, first, Min[ends])])

(* lines 52-56 *)
ParseDisk(m, text) == SetItem(m, "disk_root_used_pct", DiskFromMatch[ReSearchDisk[text]])

(* the first of the lines that starts with the label, split; <<>> when none does *)
FirstMemRow[lines \in Seq(Text)] ==
  IF \A i \in 1..Len(lines) : ~StartsWith(lines[i], MemLabel) THEN <<>>
  ELSE Split[lines[Min[{i \in 1..Len(lines) : StartsWith(lines[i], MemLabel)}]]]

(* lines 61-63 and 66-67: the items the statements set, in a dict, and the
   message of the exception they raise, "" when they raise none *)
MemFromParts[parts \in Seq(Text)] ==
  IF parts = <<>>
  THEN [set |-> [mem_total_mb |-> None, mem_free_mb |-> None], exc |-> ""]
  ELSE IF Len(parts) < 2 THEN [set |-> NoDict, exc |-> IndexErrorMsg]
  ELSE IF ~FloatOK[parts[2]] THEN [set |-> NoDict, exc |-> ValueErrorMsg]
  ELSE
    LET total == SetItem(NoDict, "mem_total_mb", FloatVal[parts[2]])
        k == IF Len(parts) >= 7 THEN 7 ELSE 4
    IN  IF Len(parts) < k THEN [set |-> total, exc |-> IndexErrorMsg]
        ELSE IF ~FloatOK[parts[k]] THEN [set |-> total, exc |-> ValueErrorMsg]
        ELSE [set |-> SetItem(total, "mem_free_mb", FloatVal[parts[k]]), exc |-> ""]

(* free memory always read from the 4th field *)
ParseMemFourthOnly(m, text) ==
  LET row == FirstMemRow[SplitLines[text]]
      r == MemFromParts[IF Len(row) >= 7 THEN SubSeq(row, 1, 6) ELSE row]
  IN  [metrics |-> r.set @@ m, exc |-> r.exc]

(* lines 59-67: the dict as the statements leave it and the exception they raise *)
ParseMem(m, text) ==
  LET r == MemFromParts[FirstMemRow[SplitLines[text]]]
  IN  [metrics |-> r.set @@ m, exc |-> r.exc]

(* lines 71-76, given the tokens *)
LoadFromParts[parts \in Seq(Text)] ==
  IF Len(parts) >= 3
  THEN IF ~FloatOK[parts[1]] THEN [set |-> NoDict, exc |-> ValueErrorMsg]
       ELSE
         LET m1 == SetItem(NoDict, "cpu_load_1m", FloatVal[parts[1]])
         IN  IF ~FloatOK[parts[2]] THEN [set |-> m1, exc |-> ValueErrorMsg]
             ELSE
               LET m2 == SetItem(m1, "cpu_load_5m", FloatVal[parts[2]])
               IN  IF ~FloatOK[parts[3]] THEN [set |-> m2, exc |-> ValueErrorMsg]
                   ELSE [set |-> SetItem(m2, "cpu_load_15m", FloatVal[parts[3]]),
                         exc |-> ""]
  ELSE [set |-> [cpu_load_1m |-> None, cpu_load_5m |-> None, cpu_load_15m |-> None],
        exc |-> ""]

(* a load-average line accepted only when it has exactly 3 tokens *)
ParseLoadExactlyThree(m, text) ==
  LET r == LoadFromParts[IF Len(Split[text]) = 3 THEN Split[text] ELSE <<>>]
  IN  [metrics |-> r.set @@ m, exc |-> r.exc]

(* lines 70-76 *)
ParseLoad(m, text) ==
  LET r == LoadFromParts[Split[text]]
  IN  [metrics |-> r.set @@ m, exc |-> r.exc]

(* the millidegrees stored without the division *)
ParseTempNoDivision(m, text) ==
  IF FloatOK[text]
  THEN SetItem(m, "temperature_c", FloatVal[text])
  ELSE SetItem(m, "temperature_c", None)

(* lines 79-83: the ValueError of float() is handled here *)
ParseTemp(m, text) ==
  IF FloatOK[text]
  THEN SetItem(m, "temperature_c", DivThousand(FloatVal[text]))
  ELSE SetItem(m, "temperature_c", None)

----------------------------------------------------------------------------
(* What the remote commands may print *)

DigitChar(d) == CHOOSE c \in Digits : DigitVal(c) = d

RECURSIVE Dec(_)
(* the decimal digits of a natural number *)
Dec(n) == IF n < 10 THEN <<DigitChar(n)>> ELSE Dec(n \div 10) \o <<DigitChar(n % 10)>>

(* the text of an integer *)
IntText(n) == IF n < 0 THEN <<"-">> \o Dec(0 - n) ELSE Dec(n)

RECURSIVE Join(_, _)
(* sep.join(toks) *)
Join(toks, sep) ==
  IF toks = <<>> THEN <<>>
  ELSE IF Len(toks) = 1 THEN toks[1]
  ELSE toks[1] \o sep \o Join(Tail(toks), sep)

DiskPcts == {5, 18, 100}

(* what precedes the percentage column, and what follows its digits *)
DfBefore == {<<>>, <<"d", " ">>, <<"x", "\n", "d", " ", " ">>, <<"d">>}

DfAfter == {<<"%", " ", "/", "\n">>, <<" ", "/">>}

DfText(before, pct, after) == before \o Dec(pct) \o after

(* two rows, and a percentage whose mount point is on the next line *)
DfOther ==
  {<<>>, <<"x", "\n">>,
   <<"d", " ", "5", "%", " ", "/", "\n", "d", " ", "7", "%", " ", "/", "x">>,
   <<" ", "7", "%", "\n", " ", "/", "x">>}

DfTexts ==
  {DfText(b, 18, a) : b \in DfBefore, a \in DfAfter}
    \cup {DfText(<<"d", " ">>, p, <<"%", " ", "/", "\n">>) : p \in DiskPcts}
    \cup DfOther

MemNum(i) == 12 * i

(* a memory row of n fields after the label; field bad, if any, is not a number *)
MemRow(n, bad) ==
  Join(<<MemLabel>> \o [i \in 1..n |-> IF i = bad THEN <<"x">> ELSE Dec(MemNum(i))],
       <<" ">>)

MemHeader == <<"x", " ", "x", "\n">>

MemSwap == <<"\n", "S", ":", " ", "0">>

MemRowTexts == {MemRow(n, bad) : n \in 0..MaxMemFields, bad \in 0..MaxMemFields}

(* no line starts with the label *)
MemNoRow == {<<>>, MemHeader, <<" ">> \o MemRow(4, 0)}

MemTexts ==
  MemRowTexts
    \cup {MemHeader \o MemRow(n, 0) \o MemSwap : n \in 0..MaxMemFields}
    \cup {MemRow(4, 0) \o <<"\n">> \o MemRow(1, 0)}
    \cup MemNoRow

LoadTok(i) == IF i <= 3 THEN <<"0", ".">> \o Dec(10 + i) ELSE <<"1", "/", "2">>

(* n load-average tokens; token bad, if any, is not a number *)
LoadText(n, bad) ==
  Join([i \in 1..n |-> IF i = bad THEN <<"x">> ELSE LoadTok(i)], <<" ">>) \o <<"\n">>

LoadTexts == {<<>>} \cup {LoadText(n, bad) : n \in 0..MaxLoadTokens, bad \in 0..3}

TempInts == {0 - 5, 0, 45780}

TempOther == {<<>>, <<"x", "\n">>, <<"4", " ", "5", "\n">>}

TempTexts == {IntText(n) \o <<"\n">> : n \in TempInts} \cup TempOther

(* every output the commands are given in the parser's specification *)
AllOutputs == [df |-> DfTexts, free |-> MemTexts, loadavg |-> LoadTexts, temp |-> TempTexts]

(* well-formed output of the four commands *)
GoodDf == DfText(<<"d", " ">>, 18, <<"%", " ", "/", "\n">>)

GoodFree == MemRow(6, 0)

GoodLoadavg == LoadText(4, 0)

GoodTemp == IntText(45780) \o <<"\n">>

(* the outputs the hosts of the poll loop's specification give *)
PolledOutputs ==
  [df |-> {GoodDf},
   free |-> {GoodFree, MemRow(2, 0)},
   loadavg |-> {GoodLoadavg},
   temp |-> {GoodTemp, <<>>}]

----------------------------------------------------------------------------
(* State *)

VARIABLES
  monitors,     \* main: the list load_hosts_from_json returned
  cycle,        \* main: passes of the while loop started so far
  idx,          \* main: position of mon in monitors
  pc,           \* the statement about to run
  out,          \* the lines printed since the last "--- Polling hosts" line
  metrics,      \* get_metrics: the dict being filled
  client,       \* get_metrics: None or the client _connect returned
  df_out, free_out, loadavg_out, temp_raw,   \* get_metrics: the texts read
  exc,          \* str(e) of the exception being handled
  ret,          \* the value get_metrics returns
  ran,          \* the commands passed to exec_command in this call, each
                \* with the client it was called on
  closes,       \* the close() calls made in this call
  unclosed,     \* the clients created in this call and not closed
  polled,       \* history: for each host polled since the header line, whether
                \* it connected and whether it gave the well-formed outputs
  failedBefore, \* history: the hosts whose connect failed in an earlier pass
  hosts_config, \* load_hosts_from_json: the "hosts" list of the file
  warnings,     \* load_hosts_from_json: the entries printed as skipped
  sessions,     \* the clients whose connect() returned and that are not closed
  attempts      \* history: the hosts connect() was called for since the header line

vars ==
  <<monitors, cycle, idx, pc, out, metrics, client, df_out, free_out,
    loadavg_out, temp_raw, exc, ret, ran, closes, unclosed, polled, failedBefore,
    hosts_config, warnings, sessions, attempts>>

mainVars == <<monitors, cycle, idx, out, polled, failedBefore, hosts_config, warnings>>

textVars == <<df_out, free_out, loadavg_out, temp_raw>>

(* values read from the JSON file: null is None, the empty string is
   EmptyStr, the other strings are tuples such as <<"host", 1>> *)
EmptyStr == <<"">>

(* bool(v) of such a value *)
Truthy(v) == v \notin {None, EmptyStr}

(* h.get(key, default) *)
Get(h, key, default) == IF key \in DOMAIN h THEN h[key] ELSE default

(* RemoteMonitor.__init__ *)
RemoteMonitor(hostname, username, key_filename, password, port, label) ==
  [hostname |-> hostname, username |-> username, key_filename |-> key_filename,
   password |-> password, port |-> port,
   label |-> IF Truthy(label) THEN label ELSE hostname]

RECURSIVE LoadLoop(_, _, _)

(* lines 102-119: the for loop from entry i on *)
LoadLoop(config, i, acc) ==
  IF i > Len(config) THEN acc
  ELSE
    LET h == config[i]
        hostname == Get(h, "hostname", None)
        username == Get(h, "username", None)
        key_filename == Get(h, "key_filename", None)
        password == Get(h, "password", None)
        port == Get(h, "port", 22)
        label == Get(h, "label", None)
    IN  IF Truthy(hostname) /\ Truthy(username)
        THEN LoadLoop(config, i + 1,
               [acc EXCEPT !.monitors =
                  Append(@, RemoteMonitor(hostname, username, key_filename,
                                          password, port, label))])
        ELSE LoadLoop(config, i + 1, [acc EXCEPT !.warnings = Append(@, h)])

(* a loop that ends at the first entry it skips *)
LoadHostsUntilInvalid(config) ==
  LET bad == {i \in 1..Len(config) :
                ~(Truthy(Get(config[i], "hostname", None))
                  /\ Truthy(Get(config[i], "username", None)))}
  IN  IF bad = {} THEN LoadLoop(config, 1, [monitors |-> <<>>, warnings |-> <<>>])
      ELSE LoadLoop(SubSeq(config, 1, Min[bad] - 1), 1,
                    [monitors |-> <<>>, warnings |-> <<config[Min[bad]]>>])

(* lines 99-121, given the "hosts" list: the monitors returned and the
   entries printed as skipped *)
load_hosts_from_json(config) ==
  LoadLoop(config, 1, [monitors |-> <<>>, warnings |-> <<>>])

(* the entries of a file, by the place i they have in the list *)
EntryKinds == {"full", "alt", "emptyhost", "nulluser", "empty"}

Entry(kind, i) ==
  CASE kind = "full" ->
         [hostname |-> <<"host", i>>, username |-> <<"user", i>>,
          key_filename |-> <<"key", i>>, port |-> 22, label |-> <<"label", i>>]
    [] kind = "bare" ->
         [hostname |-> <<"host", i>>, username |-> <<"user", i>>,
          password |-> <<"pw", i>>]
    [] kind = "alt" ->
         [hostname |-> <<"host", i>>, username |-> <<"user", i>>,
          password |-> <<"pw", i>>, port |-> 2222, label |-> EmptyStr]
    [] kind = "emptyhost" ->
         [hostname |-> EmptyStr, username |-> <<"user", i>>, label |-> <<"label", i>>]
    [] kind = "nulluser" ->
         [hostname |-> <<"host", i>>, username |-> None, password |-> <<"pw", i>>]
    [] OTHER -> [k \in {} |-> None]

Configs ==
  UNION {{[i \in 1..n |-> Entry(kinds[i], i)] : kinds \in [1..n -> EntryKinds]} :
           n \in 0..MaxEntries}

(* the file that gives the registry below *)
RegistryConfig(n) == [i \in 1..n |-> Entry(IF i = 1 THEN "full" ELSE "bare", i)]

(* the registry: host 1 has a label and a key, the others a password *)
Registry(n) ==
  [i \in 1..n |->
     IF i = 1
     THEN RemoteMonitor(<<"host", i>>, <<"user", i>>, <<"key", i>>, None, 22, <<"label", i>>)
     ELSE RemoteMonitor(<<"host", i>>, <<"user", i>>, None, <<"pw", i>>, 22, None)]

ConnectErrors == {"timed out", "Authentication failed."}

ExecError == "SSH session not active"

Init ==
  /\ monitors = Registry(NumHosts)
  /\ hosts_config = RegistryConfig(NumHosts)
  /\ warnings = <<>>
  /\ cycle = 0
  /\ idx = 0
  /\ pc = "while"
  /\ out = <<>>
  /\ metrics = NoDict
  /\ client = None
  /\ df_out = <<>> /\ free_out = <<>> /\ loadavg_out = <<>> /\ temp_raw = <<>>
  /\ exc = ""
  /\ ret = NoDict
  /\ ran = <<>>
  /\ closes = 0
  /\ unclosed = {}
  /\ polled = <<>>
  /\ failedBefore = {}
  /\ sessions = {}
  /\ attempts = <<>>

(* one call of get_metrics on one host, for the parser *)
InitParser ==
  /\ monitors = Registry(1)
  /\ hosts_config = RegistryConfig(1)
  /\ warnings = <<>>
  /\ cycle = 1
  /\ idx = 1
  /\ pc = "get_metrics"
  /\ out = <<>>
  /\ metrics = NoDict
  /\ client = None
  /\ df_out = <<>> /\ free_out = <<>> /\ loadavg_out = <<>> /\ temp_raw = <<>>
  /\ exc = ""
  /\ ret = NoDict
  /\ ran = <<>>
  /\ closes = 0
  /\ unclosed = {}
  /\ polled = <<>>
  /\ failedBefore = {}
  /\ sessions = {}
  /\ attempts = <<>>

(* main before line 125, for any file *)
InitLoader ==
  /\ hosts_config \in Configs
  /\ monitors = <<>>
  /\ warnings = <<>>
  /\ cycle = 0
  /\ idx = 0
  /\ pc = "load"
  /\ out = <<>>
  /\ metrics = NoDict
  /\ client = None
  /\ df_out = <<>> /\ free_out = <<>> /\ loadavg_out = <<>> /\ temp_raw = <<>>
  /\ exc = ""
  /\ ret = NoDict
  /\ ran = <<>>
  /\ closes = 0
  /\ unclosed = {}
  /\ polled = <<>>
  /\ failedBefore = {}
  /\ sessions = {}
  /\ attempts = <<>>

----------------------------------------------------------------------------
(* get_metrics *)

(* a call that goes on filling the dict of the call before it *)
EnterKeepsMetrics ==
  /\ pc = "get_metrics"
  /\ metrics' = metrics
  /\ client' = None
  /\ df_out' = <<>> /\ free_out' = <<>> /\ loadavg_out' = <<>> /\ temp_raw' = <<>>
  /\ exc' = ""
  /\ ret' = NoDict
  /\ ran' = <<>>
  /\ closes' = 0
  /\ unclosed' = {}
  /\ pc' = "connect"
  /\ UNCHANGED <<mainVars, sessions, attempts>>

(* lines 32-33 *)
Enter ==
  /\ pc = "get_metrics"
  /\ metrics' = NoDict
  /\ client' = None
  /\ df_out' = <<>> /\ free_out' = <<>> /\ loadavg_out' = <<>> /\ temp_raw' = <<>>
  /\ exc' = ""
  /\ ret' = NoDict
  /\ ran' = <<>>
  /\ closes' = 0
  /\ unclosed' = {}
  /\ pc' = "connect"
  /\ UNCHANGED <<mainVars, sessions, attempts>>

(* a connect that is called a second time for the host when the first call raised *)
ConnectRetriesOnce ==
  /\ pc = "connect"
  /\ LET c == <<cycle, idx>>
     IN  \/ /\ client' = c
            /\ sessions' = sessions \cup {c}
            /\ pc' = "exec_df"
            /\ exc' = exc
         \/ /\ \E e \in ConnectErrors : exc' = e
            /\ client' = client
            /\ sessions' = sessions
            /\ pc' = IF \E k \in 1..Len(attempts) : attempts[k] = idx
                     THEN "except" ELSE "connect"
  /\ unclosed' = unclosed \cup {<<cycle, idx>>}
  /\ attempts' = Append(attempts, idx)
  /\ UNCHANGED <<mainVars, metrics, textVars, ret, ran, closes>>

(* line 36 and _connect: the client is created, then connect() returns or raises *)
Connect ==
  /\ pc = "connect"
  /\ LET c == <<cycle, idx>>
     IN  \/ /\ client' = c
            /\ sessions' = sessions \cup {c}
            /\ pc' = "exec_df"
            /\ exc' = exc
         \/ /\ \E e \in ConnectErrors : exc' = e
            /\ client' = client
            /\ sessions' = sessions
            /\ pc' = "except"
  /\ unclosed' = unclosed \cup {<<cycle, idx>>}
  /\ attempts' = Append(attempts, idx)
  /\ UNCHANGED <<mainVars, metrics, textVars, ret, ran, closes>>

(* exec_command and stdout.read().decode() of one command: returns text or raises *)
Exec(at, cmd, texts, next) ==
  /\ pc = at
  /\ ran' = Append(ran, [cmd |-> cmd, on |-> client])
  /\ \/ /\ \E t \in texts :
             /\ df_out' = IF at = "exec_df" THEN t ELSE df_out
             /\ free_out' = IF at = "exec_free" THEN t ELSE free_out
             /\ loadavg_out' = IF at = "exec_loadavg" THEN t ELSE loadavg_out
             /\ temp_raw' = IF at = "exec_temp" THEN Strip[t] ELSE temp_raw
        /\ pc' = next
        /\ exc' = exc
     \/ /\ exc' = ExecError
        /\ pc' = "except"
        /\ UNCHANGED textVars
  /\ UNCHANGED <<sessions, attempts, mainVars, metrics, client, ret, closes, unclosed>>

(* lines 39-40 *)
ExecDf(outs) == Exec("exec_df", "df -h /", outs.df, "exec_free")

(* lines 42-43 *)
ExecFree(outs) == Exec("exec_free", "free -m", outs.free, "exec_loadavg")

(* lines 45-46 *)
ExecLoadavg(outs) == Exec("exec_loadavg", "cat /proc/loadavg", outs.loadavg, "exec_temp")

(* lines 48-49 *)
ExecTemp(outs) ==
  Exec("exec_temp", "cat /sys/class/thermal/thermal_zone0/temp", outs.temp, "parse_disk")

(* lines 52-56 *)
DoParseDisk ==
  /\ pc = "parse_disk"
  /\ metrics' = ParseDisk(metrics, df_out)
  /\ pc' = "parse_mem"
  /\ UNCHANGED <<sessions, attempts, mainVars, client, textVars, exc, ret, ran, closes, unclosed>>

(* lines 59-67 *)
DoParseMem ==
  /\ pc = "parse_mem"
  /\ \E r \in {ParseMem(metrics, free_out)} :
         /\ metrics' = r.metrics
         /\ exc' = r.exc
         /\ pc' = IF r.exc = "" THEN "parse_load" ELSE "except"
  /\ UNCHANGED <<sessions, attempts, mainVars, client, textVars, ret, ran, closes, unclosed>>

(* lines 70-76 *)
DoParseLoad ==
  /\ pc = "parse_load"
  /\ \E r \in {ParseLoad(metrics, loadavg_out)} :
         /\ metrics' = r.metrics
         /\ exc' = r.exc
         /\ pc' = IF r.exc = "" THEN "parse_temp" ELSE "except"
  /\ UNCHANGED <<sessions, attempts, mainVars, client, textVars, ret, ran, closes, unclosed>>

(* lines 79-83 *)
DoParseTemp ==
  /\ pc = "parse_temp"
  /\ metrics' = ParseTemp(metrics, temp_raw)
  /\ pc' = "return"
  /\ UNCHANGED <<sessions, attempts, mainVars, client, textVars, exc, ret, ran, closes, unclosed>>

(* a return that leaves the function without running the finally clause *)
ReturnSkipsFinally ==
  /\ pc = "return"
  /\ ret' = metrics
  /\ pc' = "print"
  /\ UNCHANGED <<sessions, attempts, mainVars, metrics, client, textVars, exc, ran, closes, unclosed>>

(* line 85 *)
Return ==
  /\ pc = "return"
  /\ ret' = metrics
  /\ pc' = "finally"
  /\ UNCHANGED <<sessions, attempts, mainVars, metrics, client, textVars, exc, ran, closes, unclosed>>

(* an except clause that adds the error to the dict built so far *)
ExceptKeepsMetrics ==
  /\ pc = "except"
  /\ ret' = SetItem(metrics, "error", exc)
  /\ pc' = "finally"
  /\ UNCHANGED <<sessions, attempts, mainVars, metrics, client, textVars, exc, ran, closes, unclosed>>

(* no except clause: the exception leaves get_metrics and ends main *)
ExceptPropagates ==
  /\ pc = "except"
  /\ pc' = "raised"
  /\ UNCHANGED <<sessions, attempts, mainVars, metrics, client, textVars, exc, ret, ran, closes, unclosed>>

(* an except clause that is also reached from a read that blocks, as a
   read with a timeout would *)
ExceptAlsoEndsHang ==
  /\ pc \in {"except", "hung"}
  /\ ret' = [error |-> IF pc = "hung" THEN "timed out" ELSE exc]
  /\ pc' = "finally"
  /\ UNCHANGED <<sessions, attempts, mainVars, metrics, client, textVars, exc, ran, closes, unclosed>>

(* lines 87-88 *)
Except ==
  /\ pc = "except"
  /\ ret' = [error |-> exc]
  /\ pc' = "finally"
  /\ UNCHANGED <<sessions, attempts, mainVars, metrics, client, textVars, exc, ran, closes, unclosed>>

(* a finally clause that closes the client only when nothing was raised *)
FinallyOnSuccessOnly ==
  /\ pc = "finally"
  /\ IF client # None /\ exc = ""
     THEN /\ closes' = closes + 1
          /\ unclosed' = unclosed \ {client}
          /\ sessions' = sessions \ {client}
     ELSE UNCHANGED <<closes, unclosed, sessions>>
  /\ pc' = "print"
  /\ UNCHANGED <<attempts, mainVars, metrics, client, textVars, exc, ret, ran>>

(* a finally clause that closes nothing *)
FinallyLeavesOpen ==
  /\ pc = "finally"
  /\ pc' = "print"
  /\ UNCHANGED <<attempts, mainVars, metrics, client, textVars, exc, ret, ran, closes,
                 unclosed, sessions>>

(* a finally clause that counts a close whether or not there is a client *)
FinallyAlwaysCloses ==
  /\ pc = "finally"
  /\ closes' = closes + 1
  /\ unclosed' = unclosed \ {client}
  /\ sessions' = sessions \ {client}
  /\ pc' = "print"
  /\ UNCHANGED <<attempts, mainVars, metrics, client, textVars, exc, ret, ran>>

(* lines 90-92, then the return to the caller *)
Finally ==
  /\ pc = "finally"
  /\ IF client # None
     THEN /\ closes' = closes + 1
          /\ unclosed' = unclosed \ {client}
          /\ sessions' = sessions \ {client}
     ELSE UNCHANGED <<closes, unclosed, sessions>>
  /\ pc' = "print"
  /\ UNCHANGED <<attempts, mainVars, metrics, client, textVars, exc, ret, ran>>

----------------------------------------------------------------------------
(* main *)

(* lines 129-131: the header line, then the for loop starts *)
While ==
  /\ pc = "while"
  /\ cycle < MaxCycles
  /\ cycle' = cycle + 1
  /\ out' = <<>>
  /\ polled' = <<>>
  /\ attempts' = <<>>
  /\ failedBefore' = failedBefore \cup {i \in 1..Len(polled) : ~polled[i].connected}
  /\ IF Len(monitors) = 0
     THEN idx' = 0 /\ pc' = "sleep"
     ELSE idx' = 1 /\ pc' = "get_metrics"
  /\ UNCHANGED <<hosts_config, warnings, sessions, monitors, metrics, client, textVars, exc, ret, ran, closes, unclosed>>

(* the four commands returned, and returned the well-formed outputs *)
GotGoodOutputs ==
  /\ Len(ran) = 4
  /\ exc # ExecError
  /\ df_out = GoodDf
  /\ free_out = GoodFree
  /\ loadavg_out = GoodLoadavg
  /\ temp_raw = Strip[GoodTemp]

(* a for loop that stops at the first host whose snapshot is an error *)
PrintHostBreakOnError ==
  /\ pc = "print"
  /\ out' = Append(out, [label |-> monitors[idx].label,
                         hostname |-> monitors[idx].hostname,
                         m |-> ret])
  /\ polled' = Append(polled, [connected |-> client # None,
                               wellformed |-> GotGoodOutputs])
  /\ IF idx < Len(monitors) /\ DOMAIN ret # {"error"}
     THEN idx' = idx + 1 /\ pc' = "get_metrics"
     ELSE idx' = idx /\ pc' = "sleep"
  /\ UNCHANGED <<hosts_config, warnings, sessions, attempts, monitors, cycle, failedBefore, metrics, client, textVars, exc, ret,
                 ran, closes, unclosed>>

(* a main that ends at the first host whose snapshot is an error *)
PrintHostExitOnError ==
  /\ pc = "print"
  /\ out' = Append(out, [label |-> monitors[idx].label,
                         hostname |-> monitors[idx].hostname,
                         m |-> ret])
  /\ polled' = Append(polled, [connected |-> client # None,
                               wellformed |-> GotGoodOutputs])
  /\ IF DOMAIN ret = {"error"}
     THEN idx' = idx /\ pc' = "exit"
     ELSE IF idx < Len(monitors)
          THEN idx' = idx + 1 /\ pc' = "get_metrics"
          ELSE idx' = idx /\ pc' = "sleep"
  /\ UNCHANGED <<hosts_config, warnings, sessions, attempts, monitors, cycle, failedBefore,
                 metrics, client, textVars, exc, ret, ran, closes, unclosed>>

(* line 133, then the for loop's next host or its end *)
PrintHost ==
  /\ pc = "print"
  /\ out' = Append(out, [label |-> monitors[idx].label,
                         hostname |-> monitors[idx].hostname,
                         m |-> ret])
  /\ polled' = Append(polled, [connected |-> client # None,
                               wellformed |-> GotGoodOutputs])
  /\ IF idx < Len(monitors)
     THEN idx' = idx + 1 /\ pc' = "get_metrics"
     ELSE idx' = idx /\ pc' = "sleep"
  /\ UNCHANGED <<hosts_config, warnings, sessions, attempts, monitors, cycle, failedBefore, metrics, client, textVars, exc, ret,
                 ran, closes, unclosed>>

(* line 134 *)
Sleep ==
  /\ pc = "sleep"
  /\ pc' = "while"
  /\ UNCHANGED <<sessions, attempts, mainVars, metrics, client, textVars, exc, ret, ran, closes, unclosed>>

(* line 125 *)
LoadHosts ==
  /\ pc = "load"
  /\ \E r \in {load_hosts_from_json(hosts_config)} :
       /\ monitors' = r.monitors
       /\ warnings' = r.warnings
  /\ pc' = "while"
  /\ UNCHANGED <<hosts_config, cycle, idx, out, polled, failedBefore, metrics, client,
                 textVars, exc, ret, ran, closes, unclosed, sessions, attempts>>

ExecPcs == {"exec_df", "exec_free", "exec_loadavg", "exec_temp"}

(* lines 39-49: exec_command is given no timeout, so a read of stdout that
   gets no data and no end of file blocks, and nothing in the program ends it *)
Hang ==
  /\ pc \in ExecPcs
  /\ pc' = "hung"
  /\ UNCHANGED <<mainVars, metrics, client, textVars, exc, ret, ran, closes, unclosed,
                 sessions, attempts>>

GetMetrics(outs) ==
  \/ Enter
  \/ Connect
  \/ ExecDf(outs)
  \/ ExecFree(outs)
  \/ ExecLoadavg(outs)
  \/ ExecTemp(outs)
  \/ DoParseDisk
  \/ DoParseMem
  \/ DoParseLoad
  \/ DoParseTemp
  \/ Return
  \/ Except
  \/ Finally

Next == While \/ GetMetrics(PolledOutputs) \/ PrintHost \/ Sleep

NextParser == GetMetrics(AllOutputs)

Spec == Init /\ [][Next]_vars

SpecParser == InitParser /\ [][NextParser]_vars

FairSpec == Spec /\ WF_vars(Next)

(* one output for each command, for the loader's specification *)
LoaderOutputs == [df |-> {GoodDf}, free |-> {GoodFree}, loadavg |-> {GoodLoadavg}, temp |-> {GoodTemp}]

NextLoader == LoadHosts \/ While \/ GetMetrics(LoaderOutputs) \/ PrintHost \/ Sleep

SpecLoader == InitLoader /\ [][NextLoader]_vars

NextHang == Next \/ Hang

SpecHang == Init /\ [][NextHang]_vars

----------------------------------------------------------------------------
(* Snapshot shapes *)

IsSuccessShape(m) == DOMAIN m = MetricKeys

IsFailureShape(m) == DOMAIN m = {"error"}

----------------------------------------------------------------------------
(* C1: in a call of get_metrics in which _connect returned a client, close
   is called on it exactly once before the call returns, on every path; it
   is never called twice, and never when no client was obtained. *)
CloseExactlyOnce ==
  /\ closes <= 1
  /\ pc = "print" => closes = (IF client # None THEN 1 ELSE 0)
  /\ pc \in {"connect", "exec_df", "exec_free", "exec_loadavg", "exec_temp",
             "parse_disk", "parse_mem", "parse_load", "parse_temp", "return",
             "except", "finally"} => closes = 0

(* a call returned after a parsing statement raised on an open session *)
ClosedAfterParseRaise ==
  /\ pc = "print"
  /\ client # None
  /\ exc = IndexErrorMsg
  /\ closes = 1

----------------------------------------------------------------------------
(* C2: in every pass of the while loop every host of the registry gets
   exactly one line, in registry order: never two, none missing when the
   pass ends, and a host whose poll starts does get its line, whatever
   connecting, executing and parsing do. *)
EveryHostEmitsOnce ==
  /\ [](/\ Len(out) <= NumHosts
        /\ \A i \in 1..Len(out) : out[i].hostname = Registry(NumHosts)[i].hostname)
  /\ [](pc = "sleep" => Len(out) = NumHosts)
  /\ \A i \in 1..NumHosts : (pc = "get_metrics" /\ idx = i) ~> (Len(out) = i)

(* a pass ended with an error line and a metrics line *)
PassWithBothShapes ==
  /\ pc = "sleep"
  /\ Len(out) = NumHosts
  /\ \E i, j \in 1..Len(out) : IsFailureShape(out[i].m) /\ IsSuccessShape(out[j].m)

----------------------------------------------------------------------------
(* C3: when exactly host k fails to connect in a pass and every other host
   connects and gives well-formed output, the pass prints N lines, an error
   for k and metrics for the others; and in every pass, a later one
   included, what a host's line holds follows from that pass's connection
   outcome and output alone. *)

WellFormed(p) == p.connected /\ p.wellformed

GoodSnapshot ==
  [disk_root_used_pct |-> <<18, 0>>, mem_total_mb |-> <<12, 0>>,
   mem_free_mb |-> <<72, 0>>, cpu_load_1m |-> <<11, 2>>, cpu_load_5m |-> <<12, 2>>,
   cpu_load_15m |-> <<13, 2>>, temperature_c |-> <<4578, 2>>]

ConnectFailureIsolated ==
  pc = "sleep" =>
    /\ Len(out) = NumHosts
    /\ Len(polled) = NumHosts
    /\ \A k \in 1..NumHosts :
         (/\ ~polled[k].connected
          /\ \A j \in (1..NumHosts) \ {k} : WellFormed(polled[j]))
         => /\ IsFailureShape(out[k].m)
            /\ \A j \in (1..NumHosts) \ {k} : IsSuccessShape(out[j].m)
    /\ \A i \in 1..NumHosts :
         /\ WellFormed(polled[i]) => out[i].m = GoodSnapshot
         /\ ~polled[i].connected =>
              IsFailureShape(out[i].m) /\ out[i].m.error \in ConnectErrors

(* the second pass: host 1 fails to connect again, host 2, which failed in
   the first pass, now succeeds *)
LaterPassAfterFailure ==
  /\ pc = "sleep"
  /\ cycle = 2
  /\ failedBefore = {1, 2}
  /\ ~polled[1].connected
  /\ WellFormed(polled[2])
  /\ IsFailureShape(out[1].m)
  /\ out[2].m = GoodSnapshot

----------------------------------------------------------------------------
(* C4: every snapshot get_metrics returns has exactly the seven metric keys
   and no error key, or exactly the key error; a failure after some fields
   were computed returns none of them. *)
ShapesNeverMixed ==
  /\ pc \in {"finally", "print"} => IsSuccessShape(ret) \/ IsFailureShape(ret)
  /\ pc \in {"finally", "print"} /\ exc # "" => IsFailureShape(ret)

(* an error was returned after the disk and total-memory fields were set *)
FailureAfterPartialMetrics ==
  /\ pc = "print"
  /\ IsFailureShape(ret)
  /\ {"disk_root_used_pct", "mem_total_mb"} \subseteq DOMAIN metrics

----------------------------------------------------------------------------
(* the session was established and all four commands returned text *)
AllCommandsReturned == client # None /\ Len(ran) = 4 /\ exc # ExecError

(* C5: parsing is total: when the session was established and all four
   commands returned text, get_metrics returns a success-shaped snapshot
   whatever the four texts are. *)
ParsingIsTotal ==
  pc = "print" /\ AllCommandsReturned => IsSuccessShape(ret)

----------------------------------------------------------------------------
(* C6: the memory fields come from the first line that starts with "Mem:":
   mem_total_mb is its 2nd field, mem_free_mb its 7th field when it has at
   least 7 fields and its 4th otherwise; without such a line both are None.
   The row's fields are the label and the numbers MemNum(1), MemNum(2), ...
   so the 2nd field is number 1, the 4th number 3 and the 7th number 6. *)

(* memory parsing has run *)
MemParsingDone == pc # "parse_mem" /\ "disk_root_used_pct" \in DOMAIN metrics

FreeIdx(n) == IF n + 1 >= 7 THEN 6 ELSE 3

(* the texts whose first "Mem:" row has the fields it takes, as numbers,
   with the values the claim gives them *)
MemCases ==
  {[text |-> pre \o MemRow(c[1], c[2]) \o suf,
    total |-> <<MemNum(1), 0>>,
    free |-> <<MemNum(FreeIdx(c[1])), 0>>] :
     c \in {x \in (3..MaxMemFields) \X (0..MaxMemFields) : x[2] \notin {1, FreeIdx(x[1])}},
     pre \in {<<>>, MemHeader}, suf \in {<<>>, MemSwap}}
  \cup {[text |-> MemRow(4, 0) \o <<"\n">> \o MemRow(1, 0),
         total |-> <<MemNum(1), 0>>, free |-> <<MemNum(3), 0>>]}
  \cup {[text |-> t, total |-> None, free |-> None] : t \in MemNoRow}

MemAsClaimed(d, text) ==
  \A c \in MemCases :
    text = c.text
    => /\ {"mem_total_mb", "mem_free_mb"} \subseteq DOMAIN d
       /\ d.mem_total_mb = c.total
       /\ d.mem_free_mb = c.free

MemFieldsByPosition ==
  /\ MemParsingDone => MemAsClaimed(metrics, free_out)
  /\ pc = "print" /\ IsSuccessShape(ret) => MemAsClaimed(ret, free_out)

(* a 7-field row between a header and a swap line was returned *)
SevenFieldRowParsed ==
  /\ pc = "print"
  /\ IsSuccessShape(ret)
  /\ free_out = MemHeader \o MemRow(6, 0) \o MemSwap
  /\ ret.mem_total_mb = <<12, 0>>
  /\ ret.mem_free_mb = <<72, 0>>

----------------------------------------------------------------------------
(* C7: a "Mem:" row of fewer than 4 fields gives a success-shaped snapshot
   whose mem_total_mb and mem_free_mb are both None. *)
ShortMemRows == {MemRow(n, bad) : n \in 0..2, bad \in 0..2}

ShortMemRowGivesNulls ==
  pc = "print" /\ AllCommandsReturned /\ free_out \in ShortMemRows
  => /\ IsSuccessShape(ret)
     /\ ret.mem_total_mb = None
     /\ ret.mem_free_mb = None

----------------------------------------------------------------------------
(* C8: the load averages are the values of the first three whitespace
   separated tokens when there are at least 3, further tokens are ignored;
   with fewer than 3 tokens, or no text, all three are None.  Token i of the
   text is 0.(10 + i) for i <= 3 and "1/2" after that. *)

(* load-average parsing has run *)
LoadParsingDone == pc # "parse_load" /\ "mem_free_mb" \in DOMAIN metrics

LoadKeys == {"cpu_load_1m", "cpu_load_5m", "cpu_load_15m"}

LongLoadTexts == {LoadText(n, 0) : n \in 3..MaxLoadTokens}

ShortLoadTexts == {<<>>} \cup {LoadText(n, bad) : n \in 0..2, bad \in 0..2}

LoadAsClaimed(d, text) ==
  /\ text \in LongLoadTexts
     => /\ LoadKeys \subseteq DOMAIN d
        /\ d.cpu_load_1m = <<11, 2>>
        /\ d.cpu_load_5m = <<12, 2>>
        /\ d.cpu_load_15m = <<13, 2>>
  /\ text \in ShortLoadTexts
     => /\ LoadKeys \subseteq DOMAIN d
        /\ \A k \in LoadKeys : d[k] = None

LoadFirstThreeTokens ==
  /\ LoadParsingDone => LoadAsClaimed(metrics, loadavg_out)
  /\ pc = "print" /\ IsSuccessShape(ret) => LoadAsClaimed(ret, loadavg_out)

(* a line of more than 3 tokens was returned *)
FourTokenLoadParsed ==
  /\ pc = "print"
  /\ IsSuccessShape(ret)
  /\ Len(Split[loadavg_out]) > 3
  /\ ret.cpu_load_1m = <<11, 2>>
  /\ ret.cpu_load_15m = <<13, 2>>

----------------------------------------------------------------------------
(* C9: when the trimmed temperature text is an integer n, temperature_c is
   n / 1000; when it is empty or not a number, temperature_c is None; the
   statement raises nothing and leaves the other six fields as they were. *)

(* n / 1000 *)
Thousandth(n) ==
  IF n % 1000 = 0 THEN <<n \div 1000, 0>>
  ELSE IF n % 100 = 0 THEN <<n \div 100, 1>>
  ELSE IF n % 10 = 0 THEN <<n \div 10, 2>>
  ELSE <<n, 3>>

TempCases ==
  {[text |-> IntText(n), value |-> Thousandth(n)] : n \in TempInts}
  \cup {[text |-> Strip[t], value |-> None] : t \in TempOther}

TempAsClaimed(d, text) ==
  \A c \in TempCases : text = c.text => d.temperature_c = c.value

TemperatureInThousandths ==
  /\ []("temperature_c" \in DOMAIN metrics => TempAsClaimed(metrics, temp_raw))
  /\ [](pc = "print" /\ IsSuccessShape(ret) => TempAsClaimed(ret, temp_raw))
  /\ [][pc = "parse_temp"
        => /\ pc' = "return"
           /\ DOMAIN metrics' = MetricKeys
           /\ \A k \in MetricKeys \ {"temperature_c"} : metrics'[k] = metrics[k]]_vars

(* 45780 millidegrees were returned as 45.78 *)
TemperatureParsed ==
  /\ pc = "print"
  /\ IsSuccessShape(ret)
  /\ temp_raw = IntText(45780)
  /\ ret.temperature_c = <<4578, 2>>

----------------------------------------------------------------------------
(* C10, as amended: when the disk text has an integer percentage with
   whitespace before it and, after it, whitespace and then "/",
   disk_root_used_pct is the first such percentage; otherwise, a percentage
   at the very start of the text included, it is None.  The statement raises
   nothing and sets no other field. *)

EndsInSpace(b) == b # <<>> /\ IsSpace(b[Len(b)])

DiskCases ==
  {[text |-> DfText(b, p, a),
    value |-> IF EndsInSpace(b) /\ a = <<"%", " ", "/", "\n">> THEN <<p, 0>> ELSE None] :
     b \in DfBefore, p \in DiskPcts, a \in DfAfter}
  \cup {[text |-> t, value |-> None] : t \in {<<>>, <<"x", "\n">>}}
  \cup {[text |-> <<"d", " ", "5", "%", " ", "/", "\n", "d", " ", "7", "%", " ", "/", "x">>,
         value |-> <<5, 0>>],
        [text |-> <<" ", "7", "%", "\n", " ", "/", "x">>, value |-> <<7, 0>>]}

DiskAsAmended(d, text) ==
  \A c \in DiskCases : text = c.text => d.disk_root_used_pct = c.value

DiskPctAfterWhitespace ==
  /\ []("disk_root_used_pct" \in DOMAIN metrics => DiskAsAmended(metrics, df_out))
  /\ [](pc = "print" /\ IsSuccessShape(ret) => DiskAsAmended(ret, df_out))
  /\ [][pc = "parse_disk"
        => pc' = "parse_mem" /\ DOMAIN metrics' = {"disk_root_used_pct"}]_vars

(* 18% in the second line of the text was returned *)
DiskPctParsed ==
  /\ pc = "print"
  /\ IsSuccessShape(ret)
  /\ df_out = DfText(<<"x", "\n", "d", " ", " ">>, 18, <<"%", " ", "/", "\n">>)
  /\ ret.disk_root_used_pct = <<18, 0>>

DiskLineCases ==
  {[text |-> DfText(b, p, <<"%", " ", "/", "\n">>), value |-> <<p, 0>>] :
     b \in DfBefore \ {<<"d">>}, p \in DiskPcts}

(* C10 as stated: whenever a line of the disk text has an integer
   percentage followed by the root mount path, disk_root_used_pct is that
   percentage. *)
DiskPctWheneverInLine ==
  "disk_root_used_pct" \in DOMAIN metrics =>
    \A c \in DiskLineCases : df_out = c.text => metrics.disk_root_used_pct = c.value

----------------------------------------------------------------------------
(* C11: load_hosts_from_json returns the entries that have a hostname and a
   username (a value that is neither null nor empty), in the order of the
   file, each with the hostname and username of its entry; every other entry is printed as
   skipped and the loop goes on to the entries after it; in every pass
   connect is called for the hosts in the order of the returned list and the
   lines are printed in that order. *)

HasBoth(h) ==
  /\ {"hostname", "username"} \subseteq DOMAIN h
  /\ h.hostname \notin {None, EmptyStr}
  /\ h.username \notin {None, EmptyStr}

Kept == {i \in 1..Len(hosts_config) : HasBoth(hosts_config[i])}

Dropped == (1..Len(hosts_config)) \ Kept

HostsLoadedInOrder ==
  /\ pc # "load" =>
       /\ Len(monitors) = Cardinality(Kept)
       /\ \A k \in 1..Len(monitors) :
            /\ monitors[k].hostname = hosts_config[Nth[Kept, k]].hostname
            /\ monitors[k].username = hosts_config[Nth[Kept, k]].username
       /\ Len(warnings) = Cardinality(Dropped)
       /\ \A k \in 1..Len(warnings) : warnings[k] = hosts_config[Nth[Dropped, k]]
  /\ Len(attempts) <= Len(monitors)
  /\ \A k \in 1..Len(attempts) : attempts[k] = k
  /\ Len(out) <= Len(monitors)
  /\ \A k \in 1..Len(out) : out[k].hostname = monitors[k].hostname
  /\ pc = "sleep" => Len(out) = Len(monitors) /\ Len(attempts) = Len(monitors)

(* a pass ended over a file whose first entry was skipped and whose second
   entry was kept *)
SkippedThenPolled ==
  /\ pc = "sleep"
  /\ Len(hosts_config) >= 2
  /\ ~HasBoth(hosts_config[1])
  /\ HasBoth(hosts_config[2])
  /\ warnings # <<>>
  /\ warnings[1] = hosts_config[1]
  /\ out # <<>>
  /\ out[1].hostname = hosts_config[2].hostname

----------------------------------------------------------------------------
(* C12: when every connect and every command returns or raises, every pass
   of the while loop that starts reaches the sleep, whichever hosts fail to
   connect; the sleep is entered once per pass, after the line of the last
   host; after the sleep the next pass starts; so the passes go on up to the
   bound MaxCycles of the model. *)
LoopNeverStops ==
  /\ \A c \in 0..(MaxCycles - 1) :
       (pc = "while" /\ cycle = c) ~> (pc = "sleep" /\ cycle = c + 1)
  /\ \A c \in 1..MaxCycles : (pc = "sleep" /\ cycle = c) ~> (pc = "while" /\ cycle = c)
  /\ <>(pc = "while" /\ cycle = MaxCycles)
  /\ [][pc' = "sleep" /\ pc # "sleep"
        => pc = "print" /\ idx = Len(monitors) /\ Len(out') = Len(monitors)]_vars
  /\ [][pc = "sleep" => pc' = "while" /\ cycle' = cycle]_vars

(* the last pass ended after a pass in which a host failed to connect and
   with no host connected in the last pass itself *)
LastPassEndedDespiteFailures ==
  /\ pc = "while"
  /\ cycle = MaxCycles
  /\ failedBefore # {}
  /\ Len(polled) = Len(monitors)
  /\ \A i \in 1..Len(polled) : ~polled[i].connected

----------------------------------------------------------------------------
(* C13, as amended: for a host whose poll succeeds the session is closed
   first, then the snapshot is printed, then connect is called for the next
   host: when the line is about to be printed the session is already closed,
   while a session is open the line of its host is not yet printed, and when
   the next host starts, the lines of all hosts before it are printed and no
   session is open. *)
ClosedThenEmittedThenNext ==
  /\ pc = "print" /\ IsSuccessShape(ret)
     => closes = 1 /\ sessions = {} /\ Len(out) = idx - 1
  /\ sessions # {} => Len(out) = idx - 1
  /\ pc \in {"get_metrics", "connect"} => sessions = {} /\ Len(out) = idx - 1

(* the metrics of the first of several hosts are about to be printed *)
SuccessLineAboutToPrint ==
  /\ pc = "print"
  /\ IsSuccessShape(ret)
  /\ idx = 1
  /\ Len(monitors) > 1
  /\ closes = 1
  /\ sessions = {}
  /\ out = <<>>

(* C13 as stated: the success-shaped snapshot is printed before its session
   is closed, so the session is still open when the line is about to be
   printed. *)
EmittedBeforeClosed ==
  pc = "print" /\ IsSuccessShape(ret) => client \in sessions /\ closes = 0

----------------------------------------------------------------------------
(* C14: in every call in which connect returned a session, all four commands
   are passed to exec_command, whether an earlier one raised or returned
   nothing. *)
AllFourCommandsAttempted ==
  pc = "print" /\ client # None => Len(ran) = 4

----------------------------------------------------------------------------
(* C15: in one call the commands are passed to exec_command in the order
   disk, memory, load average, temperature, each at most once and all on the
   client this call's connect returned; in one pass connect is called once
   for each host, so neither a connect that raised nor a command that raised
   is tried again. *)

Commands ==
  <<"df -h /", "free -m", "cat /proc/loadavg", "cat /sys/class/thermal/thermal_zone0/temp">>

CommandsInOrderNoRetry ==
  /\ Len(ran) <= 4
  /\ \A k \in 1..Len(ran) :
       /\ ran[k].cmd = Commands[k]
       /\ ran[k].on # None
       /\ ran[k].on = ran[1].on
  /\ pc \notin {"get_metrics", "while", "sleep"}
     => \A k \in 1..Len(ran) : ran[k].on = <<cycle, idx>>
  /\ \A j, k \in 1..Len(attempts) : attempts[j] = attempts[k] => j = k
  /\ \A k \in 1..Len(attempts) : attempts[k] \in 1..idx
  /\ pc \in {"print", "sleep"} => \E k \in 1..Len(attempts) : attempts[k] = idx
  /\ pc = "sleep" => Len(attempts) = Len(monitors)

(* a pass ended in which a connect raised for one host and a command raised
   for another *)
PassWithConnectAndCommandFailure ==
  /\ pc = "sleep"
  /\ Len(attempts) = Len(monitors)
  /\ \E i, j \in 1..Len(out) :
       /\ out[i].m = [error |-> ExecError]
       /\ IsFailureShape(out[j].m)
       /\ out[j].m.error \in ConnectErrors

----------------------------------------------------------------------------
(* C16: when connect raises for a host, the call goes to the except clause
   and returns: no command is passed to exec_command, close is not called,
   the snapshot returned and printed is exactly {error: the message of the
   exception}, and main goes on to the next host, or to the sleep after the
   last one. *)
ConnectFailureEmitsError ==
  /\ [](pc \in {"except", "finally", "print"} /\ client = None
        => ran = <<>> /\ closes = 0 /\ sessions = {} /\ exc \in ConnectErrors)
  /\ [](pc = "print" /\ client = None => ret = [error |-> exc])
  /\ [][pc = "connect" /\ client' = None => pc' = "except" /\ exc' \in ConnectErrors]_vars
  /\ [][pc = "print" /\ client = None
        => /\ out' = Append(out, [label |-> monitors[idx].label,
                                  hostname |-> monitors[idx].hostname,
                                  m |-> [error |-> exc]])
           /\ IF idx < Len(monitors)
              THEN pc' = "get_metrics" /\ idx' = idx + 1
              ELSE pc' = "sleep"]_vars

(* the second host is about to be polled after the first failed to connect *)
NextHostAfterConnectFailure ==
  /\ pc = "get_metrics"
  /\ idx = 2
  /\ client = None
  /\ Len(out) = 1
  /\ IsFailureShape(out[1].m)
  /\ out[1].m.error \in ConnectErrors
  /\ ran = <<>>
  /\ closes = 0

----------------------------------------------------------------------------
(* C17: at most one session is open at any time, and it is the one of the
   host being polled in the current pass; a session is opened only when none
   is open; none is open when a host's poll starts, when its line is
   printed, or during the sleep; and each command is run on the open session
   of the current host and pass, never on one of an earlier pass. *)
AtMostOneSessionOpen ==
  /\ [](/\ Cardinality(sessions) <= 1
        /\ sessions \subseteq {<<cycle, idx>>}
        /\ pc \in {"get_metrics", "connect", "print", "sleep", "while"} => sessions = {})
  /\ [][sessions' # sessions /\ sessions' # {} => sessions = {} /\ pc = "connect"]_vars
  /\ [][ran' # ran /\ ran' # <<>>
        => /\ ran'[Len(ran')].on = <<cycle, idx>>
           /\ ran'[Len(ran')].on \in sessions]_vars

(* the session of the last host is open in the last pass, after the first
   host connected in this pass and in an earlier one *)
SessionOpenInLaterPass ==
  /\ pc = "exec_free"
  /\ cycle = MaxCycles
  /\ idx = Len(monitors)
  /\ idx > 1
  /\ sessions = {<<cycle, idx>>}
  /\ polled[1].connected
  /\ 1 \notin failedBefore

----------------------------------------------------------------------------
(* C18: no step of a poll changes the registry or a field of a host's
   descriptor; a line once printed in a pass stays as it is while the other
   hosts are polled, and only the print adds a line; every call starts with
   an empty dict, and the metrics it returns are those of the texts read in
   this call. *)
PollLeavesRestUnchanged ==
  /\ [](monitors = Registry(NumHosts))
  /\ [][monitors' = monitors /\ hosts_config' = hosts_config]_vars
  /\ [][pc # "while" => Len(out') >= Len(out) /\ SubSeq(out', 1, Len(out)) = out]_vars
  /\ [][pc \notin {"print", "while"} => out' = out]_vars
  /\ [](pc = "connect" => metrics = NoDict /\ ret = NoDict /\ ran = <<>>)
  /\ [](pc = "print" /\ IsSuccessShape(ret)
        => ret = [GoodSnapshot EXCEPT
                    !.temperature_c = IF temp_raw = <<>> THEN None ELSE <<4578, 2>>])

(* a pass ended in which the first host gave a temperature and the second
   host gave none *)
SecondSnapshotOwnValues ==
  /\ pc = "sleep"
  /\ Len(out) >= 2
  /\ out[1].m = GoodSnapshot
  /\ IsSuccessShape(out[2].m)
  /\ out[2].m.temperature_c = None

----------------------------------------------------------------------------
(* C19: when the read of a command's output blocks for host i, every later
   step leaves the program there: no line is printed for host i or a later
   host, the sleep is not reached and no pass starts; and a call that is
   running a command leaves that state only by the command returning text,
   raising, or blocking. *)
HangStallsLoop ==
  /\ [](pc = "hung" => Len(out) = idx - 1 /\ sessions = {client} /\ closes = 0)
  /\ [][pc = "hung"
        => /\ pc' = "hung"
           /\ out' = out /\ cycle' = cycle /\ idx' = idx
           /\ sessions' = sessions]_vars
  /\ [][(pc \in ExecPcs)
        => /\ pc' \in ExecPcs \cup {"parse_disk", "except", "hung"}
           /\ out' = out
           /\ cycle' = cycle
           /\ idx' = idx]_vars

(* the read of the second command blocks for the first of several hosts *)
FirstHostHangs ==
  /\ pc = "hung"
  /\ idx = 1
  /\ Len(monitors) > 1
  /\ Len(ran) = 2
  /\ out = <<>>
  /\ sessions = {client}

----------------------------------------------------------------------------
(* C20: when get_metrics has returned, every client _connect created in the
   call has been closed, also when connect() raised after the client was
   created. *)
EveryClientClosed ==
  pc = "print" => unclosed = {}

====
